---- MODULE Spec2Model ----
(***************************************************************************)
(* Model of mapel/elections/distances_.py: the distance registries, the    *)
(* distance identifier parser (_extract_distance_id), the dispatcher       *)
(* (get_distance, get_ordinal_distance, get_approval_distance) and the     *)
(* two schedulers (run_single_process, run_multiple_processes).            *)
(*                                                                         *)
(* Strings are sequences of tokens: a token is either the separator "-"    *)
(* or a dash-free fragment such as "swap" or "l1".  The string             *)
(* "l1-positionwise" is <<"l1", "-", "positionwise">>.                      *)
(* Python lists/numpy arrays with 0-based indices are TLA+ sequences:      *)
(* element k of the array is element k+1 of the sequence.                  *)
(***************************************************************************)
EXTENDS Integers, Sequences, FiniteSets, TLC

(* ------------------------------ bounds --------------------------------- *)

\* longest pair list handed to a batch
MaxPairs == 2

\* longest raw identifier (in tokens) given to the parser specification
MaxLen == 3

(* --------------------------- value universe ---------------------------- *)

Dash == "-"

\* type(election) is ApprovalElection / OrdinalElection / anything else
Approval == "ApprovalElection"
Ordinal == "OrdinalElection"
Other == "Other"

\* Python's None, as a distance value (the distances are >= 0)
NoneVal == -1

\* the value of inner_distance when the identifier has no separator
NoInner == "None"

\* the experiment's instance collection: exp.instances[k] for these ids
InstanceIds == {0, 1, 2}

\* the processes of a multi-process batch (process_id)
Workers == {1, 2}

\* the families of the instance collections the batches run on
FamilyPatterns ==
  { <<Ordinal, Ordinal, Approval>>,
    <<Approval, Other, Approval>> }

\* a pair of the list instances_ids: (instance_id_1, instance_id_2), two
\* different instances of the collection
PairKeys == {p \in InstanceIds \X InstanceIds : p[1] # p[2]}

Cells == InstanceIds \X InstanceIds

\* the values time() - start_time can take: the elapsed time is written and
\* never read, one value stands for all
ElapsedTimes == {1}

\* the content of instance k as first loaded
InitialContent(k) == k

RECURSIVE SeqsUpTo(_, _)
\* all sequences over S of length <= n
SeqsUpTo(S, n) ==
  IF n = 0 THEN {<<>>}
  ELSE LET shorter == SeqsUpTo(S, n - 1)
       IN shorter \cup {Append(s, x) : s \in {t \in shorter : Len(t) = n - 1}, x \in S}

(* ---------------------------- registries ------------------------------- *)

\* registered_approval_distances as the module is loaded
BuiltinApprovalDistances ==
  (<<"approvalwise">> :> "mad.compute_approvalwise") @@
  (<<"hamming">> :> "mad.compute_hamming")

\* registered_ordinal_distances as the module is loaded
BuiltinOrdinalDistances ==
  (<<"positionwise">> :> "mod.compute_positionwise_distance") @@
  (<<"bordawise">> :> "mod.compute_bordawise_distance") @@
  (<<"pairwise">> :> "mod.compute_pairwise_distance") @@
  (<<"discrete">> :> "mod.compute_discrete_distance") @@
  (<<"swap">> :> "mod.compute_swap_distance") @@
  (<<"spearman">> :> "mod.compute_spearman_distance") @@
  (<<"blank">> :> "mod.compute_blank_distance") @@
  (<<"ilp_spearman">> :> "mod.compute_spearman_distance_ilp_py") @@
  (<<"ilp_swap">> :> "mod.compute_swap_distance_ilp_py") @@
  (<<"voterlikeness">> :> "mod.compute_voterlikeness_distance") @@
  (<<"agg_voterlikeness">> :> "mod.compute_agg_voterlikeness_distance") @@
  (<<"pos_swap">> :> "mod.compute_pos_swap_distance") @@
  (<<"voter_subelection">> :> "mod.compute_voter_subelection") @@
  (<<"candidate_subelection">> :> "mod.compute_candidate_subelection")

\* dict[key] = value
Put(d, key, value) ==
  [x \in (DOMAIN d) \cup {key} |-> IF x = key THEN value ELSE d[x]]

(* ------------------------ external collaborators ----------------------- *)

\* the element-level distances mapel.core.inner_distances knows
InnerDistanceNames == {<<"l1">>, <<"l2">>, <<"emd">>}

\* map_str_to_func(name): the element-level function, or a failure
map_str_to_func(name) ==
  IF name \in InnerDistanceNames
  THEN [ok |-> TRUE, fn |-> "inner." \o name[1]]
  ELSE [ok |-> FALSE, fn |-> NoInner]

\* metrics that return (distance, matching) rather than a bare distance
MetricsWithMatching ==
  {"mod.compute_positionwise_distance", "mod.compute_swap_distance",
   "mod.compute_spearman_distance"}

\* a metric that reorders the votes of its first argument in place
MetricsMutating == {"mod.compute_pos_swap_distance"}

\* a metric whose solver fails on some inputs
MetricsFailing == {"mod.compute_swap_distance_ilp_py"}

\* the content of an instance after a metric has mutated it
Mutated(c) == IF c \in InstanceIds THEN c + Cardinality(InstanceIds) ELSE c

\* the alignments a metric can return: the permutations of the candidates
PermTable ==
  << <<1, 2, 0>>, <<2, 0, 1>>, <<0, 2, 1>>, <<1, 0, 2>>, <<2, 1, 0>>, <<0, 1, 2>> >>

\* a registered metric called as fn(election_1, election_2, third): a
\* deterministic function of the contents it is given, not symmetric in them.
\* third is what follows the two elections: the inner distance function given
\* positionally, or the keyword arguments; the result depends on both.
MetricCall(fn, c1, c2, third) ==
  IF fn \in MetricsFailing /\ c1 > c2
  THEN [kind |-> "raise", distance |-> NoneVal, matching |-> <<>>, c1 |-> c1, c2 |-> c2]
  ELSE [kind |-> IF fn \in MetricsWithMatching THEN "tuple" ELSE "scalar",
        distance |-> (2 * c1 + c2 + (IF third.positional # NoInner THEN 1
                                     ELSE 2 * Cardinality(third.keywords))) % 7,
        matching |-> IF fn \in MetricsWithMatching
                     THEN PermTable[((c1 + 2 * c2) % Len(PermTable)) + 1]
                     ELSE <<>>,
        c1 |-> IF fn \in MetricsMutating THEN Mutated(c1) ELSE c1,
        c2 |-> c2]

\* np.argsort(matching): result[r] is the (0-based) index of the element of
\* rank r
ArgSort(a) ==
  [r \in 1..Len(a) |->
     (CHOOSE x \in 1..Len(a) :
        Cardinality({y \in 1..Len(a) : a[y] < a[x] \/ (a[y] = a[x] /\ y < x)}) = r - 1) - 1]

(* ------------------------- identifier parser --------------------------- *)

\* '-' in distance_id
Contains(s, tok) == \E k \in 1..Len(s) : s[k] = tok

RECURSIVE Split(_, _)
\* distance_id.split('-'): the list of the parts between the separators
Split(s, sep) ==
  IF ~Contains(s, sep) THEN <<s>>
  ELSE LET k == CHOOSE n \in 1..Len(s) : s[n] = sep /\ \A m \in 1..(n - 1) : s[m] # sep
       IN <<SubSeq(s, 1, k - 1)>> \o Split(SubSeq(s, k + 1, Len(s)), sep)

extract_distance_id_swapped(distance_id) ==
  IF Contains(distance_id, Dash)
  THEN LET parts == Split(distance_id, Dash)
       IN IF Len(parts) # 2
          THEN [error |-> "MalformedIdentifier", inner |-> NoInner, main |-> <<>>]
          ELSE IF ~map_str_to_func(parts[2]).ok
               THEN [error |-> "UnknownInnerDistance", inner |-> NoInner, main |-> <<>>]
               ELSE [error |-> "", inner |-> map_str_to_func(parts[2]).fn, main |-> parts[1]]
  ELSE [error |-> "", inner |-> NoInner, main |-> distance_id]

\* _extract_distance_id(distance_id): (inner_distance, main_distance), or
\* the exception raised: unpacking anything but two parts is a ValueError
\* (MalformedIdentifier); map_str_to_func may fail (UnknownInnerDistance)
extract_distance_id(distance_id) ==
  IF Contains(distance_id, Dash)
  THEN LET parts == Split(distance_id, Dash)
       IN IF Len(parts) # 2
          THEN [error |-> "MalformedIdentifier", inner |-> NoInner, main |-> <<>>]
          ELSE IF ~map_str_to_func(parts[1]).ok
               THEN [error |-> "UnknownInnerDistance", inner |-> NoInner, main |-> <<>>]
               ELSE [error |-> "", inner |-> map_str_to_func(parts[1]).fn, main |-> parts[2]]
  ELSE [error |-> "", inner |-> NoInner, main |-> distance_id]

(* ------------------------------ state ---------------------------------- *)

VARIABLES
  registered_approval_distances,  \* name -> metric, the approval registry
  registered_ordinal_distances,   \* name -> metric, the ordinal registry
  family,         \* type(exp.instances[k])
  instances,      \* the content of exp.instances[k]
  distance_id,    \* exp.distance_id
  safe_mode,      \* the safe_mode argument of run_single_process
  is_exported,    \* experiment.is_exported
  mode,           \* "single": run_single_process, "multi": run_multiple_processes
  instances_ids,  \* the whole pair list of the batch
  part,           \* part[w]: the instances_ids argument of worker w
  pc,             \* pc[w]: how many pairs of part[w] worker w has finished
  status,         \* status[w]: "idle", "running", "done" or "aborted"
  distances,      \* distances[<<i, j>>], a missing key is a cell with no entry
  times,          \* times[<<i, j>>]
  matchings,      \* matchings[<<i, j>>]
  warnings,       \* warnings[w]: the logging.warning calls of worker w, in order
  calls,          \* calls[w]: the metric invocations of worker w, in order
  writers,        \* writers[w]: the matrix cells worker w has assigned
  exports,        \* exports[w]: the export calls of worker w, in order
  raw,            \* the identifier handed to the parser
  parsed,         \* what _extract_distance_id returned for raw
  registrations,  \* the add_*_distance calls made so far, in order
  dispatch        \* the direct get_*distance calls made so far, with outcomes

vars ==
  <<registered_approval_distances, registered_ordinal_distances, family,
    instances, distance_id, safe_mode, is_exported, mode, instances_ids, part,
    pc, status, distances, times, matchings, warnings, calls, writers, exports,
    raw, parsed, registrations, dispatch>>

registryVars == <<registered_approval_distances, registered_ordinal_distances>>

experimentVars == <<family, distance_id, safe_mode, is_exported, mode, instances_ids, part>>

parserVars == <<raw, parsed>>

callVars == <<registrations, dispatch>>

\* an empty dict
EmptyDict == [x \in {} |-> 0]

Unparsed == [error |-> "unparsed", inner |-> NoInner, main |-> <<>>]

(* ----------------------------- dispatcher ------------------------------ *)

\* what a call of get_distance did: the value returned (kind "scalar",
\* "tuple" or "none"), or the exception (kind "raise", error), the contents
\* of the two objects it was given after the call, the warning it logged
\* and the metric invocations it made
Outcome(kind, distance, matching, c1, c2, warning, error, call) ==
  [kind |-> kind, distance |-> distance, matching |-> matching, c1 |-> c1,
   c2 |-> c2, warning |-> warning, error |-> error, call |-> call]

\* no keyword arguments: **kwargs of a call that gives none
NoKwargs == {}

ThirdArgumentDropsKwargs(ex, kwargs) ==
  IF ex.inner # NoInner
  THEN [positional |-> ex.inner, keywords |-> NoKwargs]
  ELSE [positional |-> NoInner, keywords |-> NoKwargs]

\* what the metric is given after the two elections: inner_distance when it
\* is not None, else **kwargs
ThirdArgument(ex, kwargs) ==
  IF ex.inner # NoInner
  THEN [positional |-> ex.inner, keywords |-> NoKwargs]
  ELSE [positional |-> NoInner, keywords |-> kwargs]

\* registry.get(main_distance)(election_1, election_2, inner_distance) when
\* inner_distance is not None, else (election_1, election_2, **kwargs)
InvokeRegistered(registry, registryName, ex, f1, c1, f2, c2, kwargs) ==
  LET fn == registry[ex.main]
      third == ThirdArgument(ex, kwargs)
      r == MetricCall(fn, c1, c2, third)
      call == [fn |-> fn, registry |-> registryName, family1 |-> f1, family2 |-> f2,
               election_1 |-> c1, election_2 |-> c2,
               third |-> third, mutates |-> (r.c1 # c1 \/ r.c2 # c2),
               kind |-> r.kind, distance |-> r.distance, matching |-> r.matching]
  IN Outcome(r.kind, r.distance, r.matching, r.c1, r.c2, "",
             IF r.kind = "raise" THEN "MetricExecutionFailure" ELSE "", <<call>>)

\* get_approval_distance(election_1, election_2, distance_id, **kwargs)
get_approval_distance(f1, c1, f2, c2, id, kwargs) ==
  LET ex == extract_distance_id(id)
  IN IF ex.error # ""
     THEN Outcome("raise", NoneVal, <<>>, c1, c2, "", ex.error, <<>>)
     ELSE IF ex.main \in DOMAIN registered_approval_distances
          THEN InvokeRegistered(registered_approval_distances, "approval", ex, f1, c1, f2, c2,
                                kwargs)
          ELSE Outcome("none", NoneVal, <<>>, c1, c2, "No such distance", "", <<>>)

\* get_ordinal_distance(election_1, election_2, distance_id, **kwargs)
get_ordinal_distance(f1, c1, f2, c2, id, kwargs) ==
  LET ex == extract_distance_id(id)
  IN IF ex.error # ""
     THEN Outcome("raise", NoneVal, <<>>, c1, c2, "", ex.error, <<>>)
     ELSE IF ex.main \in DOMAIN registered_ordinal_distances
          THEN InvokeRegistered(registered_ordinal_distances, "ordinal", ex, f1, c1, f2, c2,
                                kwargs)
          ELSE Outcome("none", NoneVal, <<>>, c1, c2, "No such distance", "", <<>>)

\* the two type tests of get_distance
BothApproval(f1, f2) == f1 = Approval /\ f2 = Approval

BothOrdinalFirstOnly(f1, f2) == f1 = Ordinal

BothOrdinal(f1, f2) == f1 = Ordinal /\ f2 = Ordinal

NoSuchInstanceRaises(c1, c2) ==
  Outcome("raise", NoneVal, <<>>, c1, c2, "", "TypeError", <<>>)

\* the else branch of get_distance: a warning, and None is returned
NoSuchInstance(c1, c2) ==
  Outcome("none", NoneVal, <<>>, c1, c2, "No such instance!", "", <<>>)

\* get_distance(election_1, election_2, distance_id)
get_distance(f1, c1, f2, c2, id) ==
  IF BothApproval(f1, f2) THEN get_approval_distance(f1, c1, f2, c2, id, NoKwargs)
  ELSE IF BothOrdinal(f1, f2) THEN get_ordinal_distance(f1, c1, f2, c2, id, NoKwargs)
  ELSE NoSuchInstance(c1, c2)

(* ------------------------------ scheduler ------------------------------ *)

SingleCopiesNever(safe) == FALSE

\* run_single_process deep-copies the instances and the id iff safe_mode
SingleCopies(safe) == safe

MultiCopiesNever == FALSE

\* run_multiple_processes always deep-copies them
MultiCopies == TRUE

\* exp.instances after a call that was given instances i and j themselves
\* (copied = FALSE) or deep copies of them (copied = TRUE)
InstancesAfter(insts, i, j, r, copied) ==
  IF copied THEN insts ELSE [insts EXCEPT ![i] = r.c1, ![j] = r.c2]

MirrorCellSameIndex(i, j) == <<j, j>>

\* the cell [instance_id_2][instance_id_1] the loop mirrors each write into
MirrorCell(i, j) == <<j, i>>

WriteMatchingOneWay(m, i, j, matching) == Put(m, <<i, j>>, matching)

WriteMatchingCopy(m, i, j, matching) ==
  Put(Put(m, <<i, j>>, matching), MirrorCell(i, j), matching)

\* matchings[i][j] = matching; matchings[j][i] = np.argsort(matching)
WriteMatching(m, i, j, matching) ==
  Put(Put(m, <<i, j>>, matching), MirrorCell(i, j), ArgSort(matching))

WriteUnmirrored(mat, i, j, value) == Put(mat, <<i, j>>, value)

WriteMirroredAndDiagonal(mat, i, j, value) ==
  Put(Put(Put(mat, <<i, j>>, value), MirrorCell(i, j), value), <<i, i>>, value)

WriteMirroredUnlessNone(mat, i, j, value) ==
  IF value = NoneVal THEN mat
  ELSE Put(Put(mat, <<i, j>>, value), MirrorCell(i, j), value)

\* mat[i][j] = value; mat[j][i] = mat[i][j]
WriteMirrored(mat, i, j, value) ==
  LET first == Put(mat, <<i, j>>, value)
  IN Put(first, MirrorCell(i, j), first[<<i, j>>])

\* the cells the body of the loop assigns for the pair (i, j)
CellsWritten(i, j, r) ==
  {<<"distances", <<i, j>>>>, <<"distances", MirrorCell(i, j)>>,
   <<"times", <<i, j>>>>, <<"times", MirrorCell(i, j)>>}
  \cup (IF r.kind = "tuple"
        THEN {<<"matchings", <<i, j>>>>, <<"matchings", MirrorCell(i, j)>>}
        ELSE {})

PropagatesNever(r) == FALSE

\* the loop has no try/except: an exception raised by get_distance leaves
\* the loop and the function
Propagates(r) == r.kind = "raise"

NextPositionBackwards(w) == Len(part[w]) - pc[w]

NextPositionFirst(w) == 1

\* the position in instances_ids the for loop of worker w takes next
NextPosition(w) == pc[w] + 1

ShouldExportAlways == TRUE

\* if experiment.is_exported
ShouldExport == is_exported

\* one iteration of the for loop of worker w: the dispatch of pair pc[w]+1
\* of its list and, unless the dispatch raised, the writes of its results
PairStep(w, copied) ==
  /\ status[w] = "running"
  /\ pc[w] < Len(part[w])
  /\ LET k == NextPosition(w)
         i == part[w][k][1]
         j == part[w][k][2]
         r == get_distance(family[i], instances[i], family[j], instances[j], distance_id)
     IN /\ instances' = InstancesAfter(instances, i, j, r, copied)
        /\ calls' = [calls EXCEPT
                       ![w] = @ \o [n \in DOMAIN r.call |-> [k |-> k, call |-> r.call[n]]]]
        /\ warnings' = [warnings EXCEPT
                          ![w] = IF r.warning = "" THEN @
                                 ELSE Append(@, [k |-> k, text |-> r.warning])]
        /\ IF Propagates(r)
           THEN /\ status' = [status EXCEPT ![w] = "aborted"]
                /\ UNCHANGED <<pc, distances, times, matchings, writers>>
           ELSE /\ \E elapsed \in ElapsedTimes :
                     times' = WriteMirrored(times, i, j, elapsed)
                /\ matchings' = IF r.kind = "tuple"
                                THEN WriteMatching(matchings, i, j, r.matching)
                                ELSE matchings
                /\ distances' = WriteMirrored(distances, i, j, r.distance)
                /\ writers' = [writers EXCEPT ![w] = @ \cup CellsWritten(i, j, r)]
                /\ pc' = [pc EXCEPT ![w] = @ + 1]
                /\ UNCHANGED status
  /\ UNCHANGED <<registryVars, experimentVars, exports, parserVars, callVars>>

\* run_single_process: one iteration of its loop
run_single_process(w) ==
  /\ mode = "single"
  /\ PairStep(w, SingleCopies(safe_mode))

\* run_single_process: the loop is over, the function returns
run_single_process_return(w) ==
  /\ mode = "single"
  /\ status[w] = "running"
  /\ pc[w] = Len(part[w])
  /\ status' = [status EXCEPT ![w] = "done"]
  /\ UNCHANGED <<registryVars, experimentVars, instances, pc, distances, times,
                 matchings, warnings, calls, writers, exports, parserVars, callVars>>

\* run_multiple_processes: one iteration of its loop
run_multiple_processes(w) ==
  /\ mode = "multi"
  /\ PairStep(w, MultiCopies)

\* run_multiple_processes: the loop is over; export if the experiment is
\* exported, then return
run_multiple_processes_return(w) ==
  /\ mode = "multi"
  /\ status[w] = "running"
  /\ pc[w] = Len(part[w])
  /\ status' = [status EXCEPT ![w] = "done"]
  /\ exports' = IF ShouldExport
                THEN [exports EXCEPT ![w] = Append(@, [pairs |-> part[w], process_id |-> w])]
                ELSE exports
  /\ UNCHANGED <<registryVars, experimentVars, instances, pc, distances, times,
                 matchings, warnings, calls, writers, parserVars, callVars>>

(* --------------------------- the batch inputs -------------------------- *)

\* the identifiers the batches are run with
DistanceIds ==
  { <<"pos_swap">>, <<"ilp_swap">>, <<"hamming">>,
    <<"l1", Dash, "positionwise">>, <<"nonexistent">>,
    <<"l1", Dash, "l1", Dash, "positionwise">> }

RECURSIVE SubList(_, _, _)
\* the pairs of list that assign gives to worker w, in the order of the list
SubList(list, assign, w) ==
  IF list = <<>> THEN <<>>
  ELSE LET n == Len(list)
           front == SubList(SubSeq(list, 1, n - 1), assign, w)
       IN IF assign[n] = w THEN Append(front, list[n]) ELSE front

\* the first worker: the one process of single-process mode
Main == CHOOSE w \in Workers : \A v \in Workers : w <= v

Init ==
  /\ registered_approval_distances = BuiltinApprovalDistances
  /\ registered_ordinal_distances = BuiltinOrdinalDistances
  /\ \E pattern \in FamilyPatterns : family = [k \in InstanceIds |-> pattern[k + 1]]
  /\ instances = [k \in InstanceIds |-> InitialContent(k)]
  /\ distance_id \in DistanceIds
  /\ is_exported \in BOOLEAN
  /\ instances_ids \in SeqsUpTo(PairKeys, MaxPairs)
  /\ mode \in {"single", "multi"}
  /\ IF mode = "single"
     THEN /\ safe_mode \in BOOLEAN
          /\ part = [w \in Workers |-> IF w = Main THEN instances_ids ELSE <<>>]
          /\ status = [w \in Workers |-> IF w = Main THEN "running" ELSE "idle"]
     ELSE /\ safe_mode = FALSE
          /\ \E assign \in [1..Len(instances_ids) -> Workers] :
               /\ instances_ids # <<>> => assign[1] = Main
               /\ part = [w \in Workers |-> SubList(instances_ids, assign, w)]
          /\ status = [w \in Workers |-> "running"]
  /\ pc = [w \in Workers |-> 0]
  /\ distances = EmptyDict
  /\ times = EmptyDict
  /\ matchings = EmptyDict
  /\ warnings = [w \in Workers |-> <<>>]
  /\ calls = [w \in Workers |-> <<>>]
  /\ writers = [w \in Workers |-> {}]
  /\ exports = [w \in Workers |-> <<>>]
  /\ raw = <<>>
  /\ parsed = Unparsed
  /\ registrations = <<>>
  /\ dispatch = <<>>

Next ==
  \E w \in Workers :
    \/ run_single_process(w)
    \/ run_single_process_return(w)
    \/ run_multiple_processes(w)
    \/ run_multiple_processes_return(w)

Spec == Init /\ [][Next]_vars

(* ------------------------ parser specification ------------------------- *)

\* the tokens the raw identifiers are built from
Tokens == {"l1", "zz", "swap", Dash}

InitParse ==
  /\ registered_approval_distances = BuiltinApprovalDistances
  /\ registered_ordinal_distances = BuiltinOrdinalDistances
  /\ family = [k \in InstanceIds |-> Ordinal]
  /\ instances = [k \in InstanceIds |-> InitialContent(k)]
  /\ distance_id = <<>>
  /\ is_exported = FALSE
  /\ instances_ids = <<>>
  /\ mode = "single"
  /\ safe_mode = FALSE
  /\ part = [w \in Workers |-> <<>>]
  /\ status = [w \in Workers |-> "idle"]
  /\ pc = [w \in Workers |-> 0]
  /\ distances = EmptyDict
  /\ times = EmptyDict
  /\ matchings = EmptyDict
  /\ warnings = [w \in Workers |-> <<>>]
  /\ calls = [w \in Workers |-> <<>>]
  /\ writers = [w \in Workers |-> {}]
  /\ exports = [w \in Workers |-> <<>>]
  /\ raw \in SeqsUpTo(Tokens, MaxLen)
  /\ parsed = Unparsed
  /\ registrations = <<>>
  /\ dispatch = <<>>

\* a call _extract_distance_id(raw)
Parse ==
  /\ parsed = Unparsed
  /\ parsed' = extract_distance_id(raw)
  /\ UNCHANGED <<registryVars, experimentVars, instances, pc, status, distances,
                 times, matchings, warnings, calls, writers, exports, raw, callVars>>

NextParse == Parse

SpecParse == InitParse /\ [][NextParse]_vars

(* --------------------- direct calls specification ---------------------- *)

\* the most add_*_distance calls of one behaviour
MaxRegs == 2

\* the names registered: a built-in approval name, a built-in ordinal name
\* and a new one
RegNames == {<<"hamming">>, <<"pos_swap">>, <<"custom">>}

\* the functions registered: a user's own and one of the library
RegFunctions == {"user.distance", "mod.compute_swap_distance"}

\* the keyword arguments given to get_approval_distance / get_ordinal_distance
KwargsChoices == {NoKwargs, {<<"solver", 1>>}}

\* the contents of the two elections of a direct call
CallContents == {<<0, 1>>, <<1, 0>>}

RegisterIfAbsent(registry, name, function) ==
  IF name \in DOMAIN registry THEN registry ELSE Put(registry, name, function)

\* registry[name] = function
Register(registry, name, function) == Put(registry, name, function)

InitCalls ==
  /\ registered_approval_distances = BuiltinApprovalDistances
  /\ registered_ordinal_distances = BuiltinOrdinalDistances
  /\ family = [k \in InstanceIds |-> Ordinal]
  /\ instances = [k \in InstanceIds |-> InitialContent(k)]
  /\ distance_id = <<>>
  /\ is_exported = FALSE
  /\ instances_ids = <<>>
  /\ mode = "single"
  /\ safe_mode = FALSE
  /\ part = [w \in Workers |-> <<>>]
  /\ status = [w \in Workers |-> "idle"]
  /\ pc = [w \in Workers |-> 0]
  /\ distances = EmptyDict
  /\ times = EmptyDict
  /\ matchings = EmptyDict
  /\ warnings = [w \in Workers |-> <<>>]
  /\ calls = [w \in Workers |-> <<>>]
  /\ writers = [w \in Workers |-> {}]
  /\ exports = [w \in Workers |-> <<>>]
  /\ raw = <<>>
  /\ parsed = Unparsed
  /\ registrations = <<>>
  /\ dispatch = <<>>

\* what no direct call changes
batchVars ==
  <<experimentVars, instances, pc, status, distances, times, matchings,
    warnings, calls, writers, exports, parserVars>>

\* add_approval_distance(name, function); the registrations of a behaviour
\* precede its dispatcher call
add_approval_distance(name, function) ==
  /\ Len(registrations) < MaxRegs
  /\ dispatch = <<>>
  /\ registered_approval_distances' =
       Register(registered_approval_distances, name, function)
  /\ registrations' =
       Append(registrations, [family |-> Approval, name |-> name, function |-> function])
  /\ UNCHANGED <<registered_ordinal_distances, dispatch, batchVars>>

\* add_ordinal_distance(name, function)
add_ordinal_distance(name, function) ==
  /\ Len(registrations) < MaxRegs
  /\ dispatch = <<>>
  /\ registered_ordinal_distances' =
       Register(registered_ordinal_distances, name, function)
  /\ registrations' =
       Append(registrations, [family |-> Ordinal, name |-> name, function |-> function])
  /\ UNCHANGED <<registered_approval_distances, dispatch, batchVars>>

\* the record of one dispatcher call
Dispatched(entry, f1, c1, f2, c2, id, kwargs, outcome) ==
  [entry |-> entry, f1 |-> f1, c1 |-> c1, f2 |-> f2, c2 |-> c2, id |-> id,
   kwargs |-> kwargs, outcome |-> outcome]

\* a call get_distance(election_1, election_2, distance_id)
CallGetDistance(f1, c, f2, id) ==
  /\ dispatch = <<>>
  /\ dispatch' = <<Dispatched("get_distance", f1, c[1], f2, c[2], id, NoKwargs,
                              get_distance(f1, c[1], f2, c[2], id))>>
  /\ UNCHANGED <<registryVars, registrations, batchVars>>

\* a call get_approval_distance(election_1, election_2, distance_id, **kwargs)
CallGetApprovalDistance(c, id, kwargs) ==
  /\ dispatch = <<>>
  /\ dispatch' = <<Dispatched("get_approval_distance", Approval, c[1], Approval, c[2],
                              id, kwargs,
                              get_approval_distance(Approval, c[1], Approval, c[2],
                                                    id, kwargs))>>
  /\ UNCHANGED <<registryVars, registrations, batchVars>>

\* a call get_ordinal_distance(election_1, election_2, distance_id, **kwargs)
CallGetOrdinalDistance(c, id, kwargs) ==
  /\ dispatch = <<>>
  /\ dispatch' = <<Dispatched("get_ordinal_distance", Ordinal, c[1], Ordinal, c[2],
                              id, kwargs,
                              get_ordinal_distance(Ordinal, c[1], Ordinal, c[2],
                                                   id, kwargs))>>
  /\ UNCHANGED <<registryVars, registrations, batchVars>>

\* the identifiers of the direct calls
CallIds == DistanceIds \cup {<<"custom">>}

NextCalls ==
  \/ \E name \in RegNames, function \in RegFunctions :
       add_approval_distance(name, function)
  \/ \E name \in RegNames, function \in RegFunctions :
       add_ordinal_distance(name, function)
  \/ \E f1 \in {Approval, Ordinal, Other}, f2 \in {Approval, Ordinal, Other},
        c \in CallContents, id \in CallIds :
       CallGetDistance(f1, c, f2, id)
  \/ \E c \in CallContents, id \in CallIds, kwargs \in KwargsChoices :
       CallGetApprovalDistance(c, id, kwargs)
  \/ \E c \in CallContents, id \in CallIds, kwargs \in KwargsChoices :
       CallGetOrdinalDistance(c, id, kwargs)

SpecCalls == InitCalls /\ [][NextCalls]_vars

(* --------------------- a whole single-process run ---------------------- *)

InitialInstances == [k \in InstanceIds |-> InitialContent(k)]

RECURSIVE SingleRun(_, _)
\* run_single_process(exp, list, {}, {}, {}, safe) run from start to end on
\* the instances as first loaded: the matrices and the instances it leaves,
\* and whether an exception ended it
SingleRun(list, safe) ==
  IF list = <<>>
  THEN [instances |-> InitialInstances, distances |-> EmptyDict,
        matchings |-> EmptyDict, aborted |-> FALSE]
  ELSE LET n == Len(list)
           prev == SingleRun(SubSeq(list, 1, n - 1), safe)
           i == list[n][1]
           j == list[n][2]
           r == get_distance(family[i], prev.instances[i], family[j], prev.instances[j],
                             distance_id)
           after == InstancesAfter(prev.instances, i, j, r, SingleCopies(safe))
       IN IF prev.aborted THEN prev
          ELSE IF Propagates(r)
               THEN [prev EXCEPT !.instances = after, !.aborted = TRUE]
               ELSE [instances |-> after,
                     distances |-> WriteMirrored(prev.distances, i, j, r.distance),
                     matchings |-> IF r.kind = "tuple"
                                   THEN WriteMatching(prev.matchings, i, j, r.matching)
                                   ELSE prev.matchings,
                     aborted |-> FALSE]

(* ------------------------------ properties ----------------------------- *)

\* the pair at position k of worker w's list
PairAt(w, k) == part[w][k]

\* the positions of worker w's list whose loop iteration is finished
Finished(w) == 1..pc[w]

\* the two instances cannot be compared: get_distance reports FamilyMismatch
FamilyMismatch(pr) ==
  family[pr[1]] # family[pr[2]] \/ family[pr[1]] \notin {Ordinal, Approval}

\* the identifier is malformed or names an unknown inner distance
BadIdentifier == extract_distance_id(distance_id).error # ""

\* the registry of a family
RegistryOf(f) ==
  IF f = Ordinal THEN registered_ordinal_distances ELSE registered_approval_distances

\* the main distance is not registered for the family of the pair
UnknownDistance(pr) ==
  /\ ~FamilyMismatch(pr)
  /\ ~BadIdentifier
  /\ extract_distance_id(distance_id).main \notin DOMAIN RegistryOf(family[pr[1]])

\* a pair whose dispatch is skipped with a warning
Skipped(pr) == FamilyMismatch(pr) \/ UnknownDistance(pr)

\* the number of warnings worker w logged for position k of its list
WarningsFor(w, k) == Cardinality({n \in DOMAIN warnings[w] : warnings[w][n].k = k})

\* the unordered key of a pair
KeyOf(pr) == {pr[1], pr[2]}

\* no pair key is given to two workers
KeyDisjoint ==
  \A w \in Workers : \A v \in Workers \ {w} :
    \A k \in DOMAIN part[w], l \in DOMAIN part[v] : KeyOf(part[w][k]) # KeyOf(part[v][l])

\* every worker has returned or was ended by an exception
BatchOver == \A w \in Workers : status[w] \in {"idle", "done", "aborted"}

\* p[q[k]] = k for every index k (0-based values, 1-based sequences)
InverseOf(q, p) ==
  /\ Len(q) = Len(p)
  /\ \A k \in 0..(Len(p) - 1) : p[k + 1] + 1 \in DOMAIN q /\ q[p[k + 1] + 1] = k

IsPermutation(p) == \A v \in 0..(Len(p) - 1) : \E k \in DOMAIN p : p[k] = v

\* C1: every pair a worker has finished has equal distances in both
\* directions and equal times in both directions.
C1_Symmetry ==
  \A w \in Workers : \A k \in Finished(w) :
    LET i == PairAt(w, k)[1]
        j == PairAt(w, k)[2]
    IN /\ {<<i, j>>, <<j, i>>} \subseteq (DOMAIN distances) \cap (DOMAIN times)
       /\ distances[<<i, j>>] = distances[<<j, i>>]
       /\ times[<<i, j>>] = times[<<j, i>>]

\* C1 witness: a pair was finished in both orders and holds a real distance
C1_Witness ==
  \E w \in Workers, v \in Workers : \E k \in Finished(w), l \in Finished(v) :
    /\ PairAt(v, l) = <<PairAt(w, k)[2], PairAt(w, k)[1]>>
    /\ distances[PairAt(w, k)] >= 0

\* C2: whenever matchings[i][j] holds a permutation p, matchings[j][i]
\* holds the inverse of p.
C2_MatchingInversion ==
  \A c \in DOMAIN matchings :
    IsPermutation(matchings[c]) =>
      /\ <<c[2], c[1]>> \in DOMAIN matchings
      /\ InverseOf(matchings[<<c[2], c[1]>>], matchings[c])

\* C2 witness: a worker finished (i,j) and then (j,i), and the matching now
\* stored is not its own inverse
C2_Witness ==
  \E w \in Workers :
    /\ pc[w] >= 2
    /\ PairAt(w, 2) = <<PairAt(w, 1)[2], PairAt(w, 1)[1]>>
    /\ PairAt(w, 2) \in DOMAIN matchings
    /\ ~InverseOf(matchings[PairAt(w, 2)], matchings[PairAt(w, 2)])

\* C3: a pair skipped with a warning has no entry in distances[i][j] nor in
\* distances[j][i].
C3_SkippedLeaveNoEntry ==
  \A w \in Workers : \A k \in Finished(w) :
    WarningsFor(w, k) > 0 =>
      /\ PairAt(w, k) \notin DOMAIN distances
      /\ <<PairAt(w, k)[2], PairAt(w, k)[1]>> \notin DOMAIN distances

\* C4: a skipped pair logs exactly one warning and does not end the worker:
\* a worker stops early only at a pair whose dispatch raises, a worker that
\* is done has dispatched its whole list, and every finished pair that is
\* not skipped has its result written.
C4_GracefulDegradation ==
  \A w \in Workers :
    /\ \A k \in Finished(w) :
         /\ Skipped(PairAt(w, k)) => WarningsFor(w, k) = 1
         /\ ~Skipped(PairAt(w, k)) =>
              /\ WarningsFor(w, k) = 0
              /\ PairAt(w, k) \in DOMAIN distances
              /\ distances[PairAt(w, k)] >= 0
    /\ status[w] = "aborted" => pc[w] < Len(part[w]) /\ ~Skipped(PairAt(w, pc[w] + 1))
    /\ status[w] = "done" => pc[w] = Len(part[w])

\* C4 witness: a worker is done, its first pair was skipped with a warning
\* and its second pair has a distance
C4_Witness ==
  \E w \in Workers :
    /\ status[w] = "done"
    /\ pc[w] = 2
    /\ WarningsFor(w, 1) = 1
    /\ ~Skipped(PairAt(w, 2))
    /\ distances[PairAt(w, 2)] >= 0

\* C5: every metric invocation is on two instances of the same family,
\* Ordinal or Approval, with the metric that family's registry holds for the
\* main distance; a pair of mixed or other types invokes no metric and logs
\* one warning.
C5_SameFamilyOnly ==
  \A w \in Workers :
    /\ \A n \in DOMAIN calls[w] :
         LET c == calls[w][n].call
             pr == PairAt(w, calls[w][n].k)
             main == extract_distance_id(distance_id).main
         IN /\ c.family1 = family[pr[1]]
            /\ c.family2 = family[pr[2]]
            /\ c.family1 = c.family2
            /\ c.family1 \in {Ordinal, Approval}
            /\ main \in DOMAIN RegistryOf(c.family1)
            /\ c.fn = RegistryOf(c.family1)[main]
    /\ \A k \in Finished(w) :
         FamilyMismatch(PairAt(w, k)) =>
           /\ \A n \in DOMAIN calls[w] : calls[w][n].k # k
           /\ WarningsFor(w, k) = 1

\* C5 witness: a worker has invoked an approval metric and has skipped a
\* pair of mixed types
C5_Witness ==
  \E w \in Workers :
    /\ \E n \in DOMAIN calls[w] : calls[w][n].call.registry = "approval"
    /\ \E k \in Finished(w) : FamilyMismatch(PairAt(w, k))

\* C6: an identifier with no "-" parses to inner = None and main = the
\* identifier; an identifier a-b with one "-" and a known inner name a parses
\* to inner = the function a resolves to and main = b.
C6_Parsing ==
  parsed # Unparsed =>
    /\ (\A k \in DOMAIN raw : raw[k] # Dash) =>
         parsed.error = "" /\ parsed.inner = NoInner /\ parsed.main = raw
    /\ \A a \in SeqsUpTo(Tokens \ {Dash}, Len(raw)), b \in SeqsUpTo(Tokens \ {Dash}, Len(raw)) :
         (raw = a \o <<Dash>> \o b /\ map_str_to_func(a).ok) =>
           parsed.error = "" /\ parsed.inner = map_str_to_func(a).fn /\ parsed.main = b

\* C6 witness: "l1-swap" has been parsed
C6_Witness == raw = <<"l1", Dash, "swap">> /\ parsed # Unparsed /\ parsed.error = ""

\* C7: with a malformed identifier or an unknown inner distance the batch
\* does not start: no warning is logged for any pair and no cell of the
\* three matrices is written.
C7_FailFast ==
  BadIdentifier =>
    /\ \A w \in Workers : warnings[w] = <<>>
    /\ distances = EmptyDict /\ times = EmptyDict /\ matchings = EmptyDict

C9_NoWriteWriteRace ==
  KeyDisjoint =>
    \A w \in Workers : \A v \in Workers \ {w} : writers[w] \cap writers[v] = {}

\* C9 witness: under a key-disjoint partition two workers have both written
C9_Witness ==
  /\ mode = "multi"
  /\ KeyDisjoint
  /\ \A w \in Workers : writers[w] # {}

\* C10: in multi-process mode, and in single-process mode with safe_mode,
\* no step changes the experiment's instances or its distance_id.
C10_InputIsolation ==
  [][(mode = "multi" \/ safe_mode) =>
       (instances' = instances /\ distance_id' = distance_id)]_vars

\* C10 witness: a metric that mutates its arguments was invoked on copies
\* and the experiment's instances are as first loaded
C10_Witness ==
  /\ mode = "multi" \/ safe_mode
  /\ \E w \in Workers : \E n \in DOMAIN calls[w] : calls[w][n].call.mutates
  /\ instances = InitialInstances

\* the two cells of a pair
PairCells(pr) == {pr, <<pr[2], pr[1]>>}

\* the cells of the pairs whose loop iteration worker w has finished
FinishedCells(w) == UNION {PairCells(PairAt(w, k)) : k \in Finished(w)}

\* worker w can take a step of its function
CanStep(w) ==
  ENABLED (\/ run_single_process(w)
           \/ run_single_process_return(w)
           \/ run_multiple_processes(w)
           \/ run_multiple_processes_return(w))

\* the dispatch of the pair worker w stopped at raised an exception
StoppedByOwnException(w) ==
  /\ pc[w] < Len(part[w])
  /\ \/ BadIdentifier
     \/ /\ calls[w] # <<>>
        /\ calls[w][Len(calls[w])].k = pc[w] + 1
        /\ calls[w][Len(calls[w])].call.kind = "raise"

\* C11: when a metric raised at position k of a worker's list, the worker is
\* aborted with exactly the pairs before k finished, it has assigned no cell
\* but those of the pairs before k, which keep their entries, and every other
\* worker is stopped only by an exception of its own and can go on while it
\* is running.
C11_MetricFailureAbortsOnlyWorker ==
  \A w \in Workers : \A n \in DOMAIN calls[w] :
    calls[w][n].call.kind = "raise" =>
      /\ status[w] = "aborted"
      /\ n = Len(calls[w])
      /\ pc[w] = calls[w][n].k - 1
      /\ {x[2] : x \in writers[w]} \subseteq FinishedCells(w)
      /\ FinishedCells(w) \subseteq (DOMAIN distances) \cap (DOMAIN times)
      /\ \A v \in Workers \ {w} :
           /\ status[v] = "aborted" => StoppedByOwnException(v)
           /\ status[v] = "running" => CanStep(v)

\* C11 witness: a metric failure aborted one worker at its first pair and
\* another worker is done with a pair written
C11_Witness ==
  \E w \in Workers : \E v \in Workers \ {w} :
    /\ status[w] = "aborted"
    /\ calls[w] # <<>>
    /\ calls[w][Len(calls[w])].call.kind = "raise"
    /\ status[v] = "done"
    /\ pc[v] >= 1
    /\ PairAt(v, 1) \in DOMAIN distances

\* C12: a worker exports at most once, and only in multi-process mode with
\* is_exported set, after it has finished every pair of its list and is done,
\* with its own list and process id; a done worker of such a batch has
\* exported; a single-process run and an aborted worker never export.
C12_ExportOrdering ==
  \A w \in Workers :
    /\ Len(exports[w]) <= 1
    /\ exports[w] # <<>> =>
         /\ mode = "multi"
         /\ is_exported
         /\ status[w] = "done"
         /\ pc[w] = Len(part[w])
         /\ exports[w][1] = [pairs |-> part[w], process_id |-> w]
         /\ FinishedCells(w) \subseteq (DOMAIN distances) \cap (DOMAIN times)
    /\ (mode = "multi" /\ is_exported /\ status[w] = "done") => Len(exports[w]) = 1

\* C12 witness: in an exported multi-process batch one worker has exported
\* after a pair and another was aborted without exporting
C12_Witness ==
  /\ mode = "multi"
  /\ is_exported
  /\ \E w \in Workers : \E v \in Workers \ {w} :
       /\ exports[w] # <<>>
       /\ pc[w] >= 1
       /\ status[v] = "aborted"
       /\ exports[v] = <<>>

\* the registry of a family as the module is loaded
BuiltinOf(f) == IF f = Ordinal THEN BuiltinOrdinalDistances ELSE BuiltinApprovalDistances

\* the position in registrations of the last registration of name in family
\* f, or 0
LatestRegistration(f, name) ==
  LET S == {n \in DOMAIN registrations :
              registrations[n].family = f /\ registrations[n].name = name}
  IN IF S = {} THEN 0 ELSE CHOOSE n \in S : \A m \in S : m <= n

\* C13: after any sequence of registrations, each name of each family maps
\* to the function of its most recent registration in that family, and a
\* name never registered in a family is there exactly as the family's
\* built-in registry has it: no entry is removed or changed by registering
\* another name or the same name in the other family.
C13_Registry ==
  \A f \in {Approval, Ordinal} :
    \A name \in RegNames \cup (DOMAIN BuiltinOf(f)) \cup (DOMAIN RegistryOf(f)) :
      LET n == LatestRegistration(f, name)
      IN IF n # 0
         THEN /\ name \in DOMAIN RegistryOf(f)
              /\ RegistryOf(f)[name] = registrations[n].function
         ELSE /\ name \in DOMAIN RegistryOf(f) <=> name \in DOMAIN BuiltinOf(f)
              /\ name \in DOMAIN BuiltinOf(f) => RegistryOf(f)[name] = BuiltinOf(f)[name]

\* C13 witness: a built-in name was registered twice in its family with
\* different functions and the second one is looked up, while the other
\* family's registry is as loaded
C13_Witness ==
  \E n \in DOMAIN registrations : \E m \in DOMAIN registrations :
    /\ n < m
    /\ registrations[n].family = registrations[m].family
    /\ registrations[n].name = registrations[m].name
    /\ registrations[n].function # registrations[m].function
    /\ registrations[m].name \in DOMAIN BuiltinOf(registrations[m].family)
    /\ RegistryOf(registrations[m].family)[registrations[m].name] =
         registrations[m].function

\* the registry a dispatcher call looks the main distance up in, for a call
\* that reaches a family dispatcher
DispatchFamily(d) ==
  IF d.entry = "get_approval_distance" THEN Approval
  ELSE IF d.entry = "get_ordinal_distance" THEN Ordinal
  ELSE d.f1

\* the call is on a same-family pair and its main distance is registered
DispatchesToMetric(d) ==
  /\ d.f1 = d.f2
  /\ d.f1 \in {Approval, Ordinal}
  /\ extract_distance_id(d.id).error = ""
  /\ extract_distance_id(d.id).main \in DOMAIN RegistryOf(DispatchFamily(d))

\* C16: a dispatcher call on a same-family pair with a registered main
\* distance invokes the registered metric exactly once, on the two instances
\* followed by the inner function when the identifier has one and by the
\* caller's keyword arguments unchanged otherwise, and returns what the
\* metric returned.
C16_DispatchCallShape ==
  \A n \in DOMAIN dispatch :
    LET d == dispatch[n]
        ex == extract_distance_id(d.id)
        metric == RegistryOf(DispatchFamily(d))[ex.main]
        expected == IF ex.inner # NoInner
                    THEN [positional |-> ex.inner, keywords |-> {}]
                    ELSE [positional |-> NoInner, keywords |-> d.kwargs]
        result == MetricCall(metric, d.c1, d.c2, expected)
    IN DispatchesToMetric(d) =>
         /\ Len(d.outcome.call) = 1
         /\ d.outcome.call[1].fn = metric
         /\ d.outcome.call[1].election_1 = d.c1
         /\ d.outcome.call[1].election_2 = d.c2
         /\ d.outcome.call[1].third = expected
         /\ d.outcome.kind = result.kind
         /\ d.outcome.distance = result.distance
         /\ d.outcome.matching = result.matching
         /\ d.outcome.warning = ""

\* C16 witness: get_ordinal_distance was called with keyword arguments and
\* an identifier without inner distance whose metric was registered by the
\* caller, and the metric got the keyword arguments
C16_Witness ==
  \E n \in DOMAIN dispatch :
    /\ DispatchesToMetric(dispatch[n])
    /\ dispatch[n].entry = "get_ordinal_distance"
    /\ dispatch[n].kwargs # {}
    /\ extract_distance_id(dispatch[n].id).inner = NoInner
    /\ LatestRegistration(Ordinal, dispatch[n].id) # 0
    /\ Len(dispatch[n].outcome.call) = 1
    /\ dispatch[n].outcome.call[1].third.keywords = dispatch[n].kwargs

\* C16 second case reached: an identifier with an inner distance, called
\* through get_distance, gave the metric the inner function
C16_WitnessInner ==
  \E n \in DOMAIN dispatch :
    /\ DispatchesToMetric(dispatch[n])
    /\ dispatch[n].entry = "get_distance"
    /\ extract_distance_id(dispatch[n].id).inner # NoInner
    /\ Len(dispatch[n].outcome.call) = 1
    /\ dispatch[n].outcome.call[1].third.positional =
         extract_distance_id(dispatch[n].id).inner

\* how often pair p occurs in list
Count(list, p) == Cardinality({k \in DOMAIN list : list[k] = p})

\* the positions of its list worker w has dispatched: each dispatch is logged
\* as a metric invocation or as a warning
Dispatches(w) ==
  [n \in DOMAIN calls[w] |-> calls[w][n].k] \o
  [n \in DOMAIN warnings[w] |-> warnings[w][n].k]

\* how often worker w has dispatched pair p
ProcessedCount(w, p) ==
  LET d == Dispatches(w)
  IN Cardinality({n \in DOMAIN d : PairAt(w, d[n]) = p})

\* the pairs of a list
PairsOf(list) == {list[k] : k \in DOMAIN list}

RECURSIVE SumOver(_, _)
\* the sum of f[x] over x in S
SumOver(f, S) ==
  IF S = {} THEN 0
  ELSE LET x == CHOOSE y \in S : TRUE IN f[x] + SumOver(f, S \ {x})

\* C14: in multi-process mode the workers' lists together hold every pair
\* as often as the whole list does, and once all workers have run their
\* loops to the end every pair has been dispatched exactly as often as it
\* occurs in the whole list: nothing is left out and nothing is done twice.
C14_PartitionCompleteness ==
  mode = "multi" =>
    /\ \A w \in Workers : PairsOf(part[w]) \subseteq PairsOf(instances_ids)
    /\ \A p \in PairsOf(instances_ids) :
         /\ SumOver([w \in Workers |-> Count(part[w], p)], Workers) =
              Count(instances_ids, p)
         /\ (\A w \in Workers : status[w] = "done") =>
              SumOver([w \in Workers |-> ProcessedCount(w, p)], Workers) =
                Count(instances_ids, p)

\* C14 witness: a list of two different pairs was split between two
\* workers and both have finished
C14_Witness ==
  /\ mode = "multi"
  /\ Len(instances_ids) = 2
  /\ instances_ids[1] # instances_ids[2]
  /\ \A w \in Workers : status[w] = "done" /\ Len(part[w]) = 1 /\ pc[w] = 1

\* some worker has finished a pair with the key of cell c
FinishedKey(c) ==
  \E w \in Workers : \E k \in Finished(w) : KeyOf(PairAt(w, k)) = KeyOf(c)

\* some worker has finished a pair with the key of cell c for which the
\* metric returned a (distance, matching) tuple
FinishedKeyWithMatching(c) ==
  \E w \in Workers : \E n \in DOMAIN calls[w] :
    /\ calls[w][n].k \in Finished(w)
    /\ calls[w][n].call.kind = "tuple"
    /\ KeyOf(PairAt(w, calls[w][n].k)) = KeyOf(c)

\* C15: between loop iterations every cell has a distance exactly if it has
\* a time, exactly if its mirror cell has both, and exactly if a pair with
\* its key is finished; it has a matching exactly if its mirror cell has one
\* and exactly if a finished pair with its key got an alignment from the
\* metric. So a pair is written in full or not at all, and a pair whose
\* metric returned a bare scalar has no matching.
C15_PerPairAtomicity ==
  \A c \in Cells :
    LET mirror == <<c[2], c[1]>>
    IN /\ c \in DOMAIN distances <=> c \in DOMAIN times
       /\ c \in DOMAIN distances <=> mirror \in DOMAIN distances
       /\ c \in DOMAIN distances <=> FinishedKey(c)
       /\ c \in DOMAIN matchings <=> mirror \in DOMAIN matchings
       /\ c \in DOMAIN matchings <=> FinishedKeyWithMatching(c)
       /\ c \in DOMAIN matchings => c \in DOMAIN distances

\* C15 witness: one pair is written in full with a matching while the next
\* pair of the same worker has no entry yet
C15_Witness ==
  \E w \in Workers :
    /\ pc[w] = 1
    /\ Len(part[w]) = 2
    /\ KeyOf(PairAt(w, 1)) # KeyOf(PairAt(w, 2))
    /\ PairAt(w, 1) \in DOMAIN matchings
    /\ <<PairAt(w, 1)[2], PairAt(w, 1)[1]>> \in DOMAIN matchings
    /\ PairAt(w, 1) \in DOMAIN times
    /\ PairAt(w, 2) \notin DOMAIN distances

\* the positions of a log increase from each entry to the next
InListOrder(log) ==
  \A n \in DOMAIN log : \A m \in DOMAIN log : n < m => log[n].k < log[m].k

\* the last finished position of worker w's list that holds the key of pr
LastOccurrence(w, pr) ==
  CHOOSE k \in Finished(w) :
    /\ KeyOf(PairAt(w, k)) = KeyOf(pr)
    /\ \A l \in Finished(w) : KeyOf(PairAt(w, l)) = KeyOf(pr) => l <= k

\* what the dispatch of position k of worker w's list returned
ResultAt(w, k) ==
  LET S == {n \in DOMAIN calls[w] : calls[w][n].k = k}
  IN IF S = {} THEN [kind |-> "none", distance |-> NoneVal, matching |-> <<>>]
     ELSE LET c == calls[w][CHOOSE n \in S : TRUE].call
          IN [kind |-> c.kind, distance |-> c.distance, matching |-> c.matching]

\* no other worker has a pair with the key of position k of worker w's list
OnlyWorkerOf(w, k) ==
  \A v \in Workers \ {w} : \A l \in DOMAIN part[v] :
    KeyOf(part[v][l]) # KeyOf(PairAt(w, k))

\* C17: a worker dispatches the pairs of its list one after the other in the
\* order of the list, each once, the next one only when the one before is
\* finished; and the cells of a pair key that no other worker has hold the
\* result of the last finished occurrence of the key in the list.
C17_InOrderProcessing ==
  \A w \in Workers :
    LET d == Dispatches(w)
    IN /\ InListOrder(calls[w])
       /\ InListOrder(warnings[w])
       /\ \A n \in DOMAIN d : d[n] \in 1..(pc[w] + 1)
       /\ \A k \in Finished(w) : Cardinality({n \in DOMAIN d : d[n] = k}) = 1
       /\ \A k \in Finished(w) :
            (k = LastOccurrence(w, PairAt(w, k)) /\ OnlyWorkerOf(w, k)) =>
              LET r == ResultAt(w, k)
              IN /\ distances[PairAt(w, k)] = r.distance
                 /\ distances[<<PairAt(w, k)[2], PairAt(w, k)[1]>>] = r.distance
                 /\ r.kind = "tuple" => matchings[PairAt(w, k)] = r.matching

\* C17 witness: a worker has finished two occurrences of one pair key that
\* gave different distances, and the cells hold the second one
C17_Witness ==
  \E w \in Workers :
    /\ pc[w] = 2
    /\ KeyOf(PairAt(w, 1)) = KeyOf(PairAt(w, 2))
    /\ ResultAt(w, 1).kind # "none"
    /\ ResultAt(w, 1).distance # ResultAt(w, 2).distance
    /\ distances[PairAt(w, 2)] = ResultAt(w, 2).distance
    /\ distances[PairAt(w, 1)] # ResultAt(w, 1).distance

\* the cells of the pairs of worker w's list
OwnCells(w) == UNION {PairCells(part[w][k]) : k \in DOMAIN part[w]}

\* C18: a worker assigns only cells (i, j) and (j, i) of pairs (i, j) of
\* its own list; a cell of the distance, time and matching matrices that
\* belongs to no worker's list keeps having no entry, and both registries
\* stay as loaded.
C18_FrameOfBatch ==
  /\ \A w \in Workers : {x[2] : x \in writers[w]} \subseteq OwnCells(w)
  /\ (DOMAIN distances) \cup (DOMAIN times) \cup (DOMAIN matchings)
       \subseteq UNION {OwnCells(w) : w \in Workers}
  /\ \A w \in Workers : status[w] = "idle" => writers[w] = {}
  /\ registered_approval_distances = BuiltinApprovalDistances
  /\ registered_ordinal_distances = BuiltinOrdinalDistances

\* C18 witness: two workers have each written the cells of their own pair,
\* with a matching, and a cell outside both lists has no entry
C18_Witness ==
  \E w \in Workers : \E v \in Workers \ {w} :
    /\ writers[w] # {}
    /\ writers[v] # {}
    /\ writers[w] \cap writers[v] = {}
    /\ \E x \in writers[w] : x[1] = "matchings"
    /\ \E c \in PairKeys :
         /\ c \notin OwnCells(w) \cup OwnCells(v)
         /\ c \notin (DOMAIN distances) \cup (DOMAIN times) \cup (DOMAIN matchings)

\* C19: when a worker's loop has run to the end, every pair of its list has
\* an entry in both of its time cells and both of its distance cells, also a
\* pair for which get_distance returned nothing after a warning.
C19_CoverageOfCompletedBatch ==
  \A w \in Workers :
    status[w] = "done" =>
      \A k \in DOMAIN part[w] :
        PairCells(part[w][k]) \subseteq (DOMAIN times) \cap (DOMAIN distances)

\* C19 witness: a worker is done after a pair that gave a distance and a
\* pair that gave a warning and no result, and both have their entries
C19_Witness ==
  \E w \in Workers :
    /\ status[w] = "done"
    /\ pc[w] = 2
    /\ \E k \in Finished(w) : ResultAt(w, k).kind \in {"scalar", "tuple"}
    /\ \E k \in Finished(w) :
         /\ ResultAt(w, k).kind = "none"
         /\ WarningsFor(w, k) = 1
         /\ distances[PairAt(w, k)] = NoneVal
         /\ PairAt(w, k) \in DOMAIN times

====
